---- MODULE Spec2Model ----
(***************************************************************************)
(* mtc: a batch dispatcher that globs input files, shares them between     *)
(* thread_count worker threads through a Mutex<Vec<PathBuf>>, and runs     *)
(* ffmpeg once per file (src/src/main.rs).                                 *)
(*                                                                         *)
(* Strings and paths are sequences of one-character strings, so that       *)
(* str::replace and the std::path decomposition are computed, not assumed. *)
(* Option<T> is a sequence of length 0 (None) or 1 (Some).                 *)
(***************************************************************************)
EXTENDS Integers, Sequences, FiniteSets, TLC

\* ---------------------------------------------------------------- bounds
MaxThreads == 2
MaxPaths == 3

\* ------------------------------------------------------- Option<T> values
None == <<>>
Some(x) == <<x>>
IsSome(o) == Len(o) = 1
Unwrap(o) == o[1]
UnwrapOr(o, d) == IF IsSome(o) THEN o[1] ELSE d

\* --------------------------------------------------------- string helpers
\* Greatest index of character c in s, 0 when absent.
LastIndexOf(s, c) ==
    LET I == {i \in 1..Len(s) : s[i] = c}
    IN IF I = {} THEN 0 ELSE CHOOSE i \in I : \A j \in I : j <= i

\* str::replace: every non-overlapping match of from, scanned left to right,
\* is replaced by to; the inserted text is not rescanned.
RECURSIVE Replace(_, _, _)
Replace(s, from, to) ==
    IF Len(s) < Len(from) THEN s
    ELSE IF SubSeq(s, 1, Len(from)) = from
         THEN to \o Replace(SubSeq(s, Len(from) + 1, Len(s)), from, to)
         ELSE <<Head(s)>> \o Replace(Tail(s), from, to)

\* str::split(' '): one token per separator plus one, empty tokens kept.
RECURSIVE Split(_, _)
Split(s, c) ==
    LET I == {i \in 1..Len(s) : s[i] = c}
    IN IF I = {} THEN <<s>>
       ELSE LET i == CHOOSE k \in I : \A j \in I : k <= j
            IN <<SubSeq(s, 1, i - 1)>> \o Split(SubSeq(s, i + 1, Len(s)), c)

\* ------------------------------------------------- std::path (Unix rules)
\* Length of s once trailing separators and trailing "/." are dropped, as
\* Components::next_back skips them; a lone root "/" is kept.
RECURSIVE TrimmedLen(_)
TrimmedLen(s) ==
    LET n == Len(s)
    IN IF n >= 2 /\ s[n] = "/" THEN TrimmedLen(SubSeq(s, 1, n - 1))
       ELSE IF n >= 2 /\ s[n] = "." /\ s[n - 1] = "/"
            THEN TrimmedLen(SubSeq(s, 1, n - 1))
       ELSE n

\* The last component of the path as text (the root is "/", the empty path
\* has none).
LastComponent(s) ==
    LET t == SubSeq(s, 1, TrimmedLen(s))
        k == LastIndexOf(t, "/")
    IN IF t = <<>> THEN None
       ELSE IF t = <<"/">> THEN Some(t)
       ELSE Some(SubSeq(t, k + 1, Len(t)))

\* Path::file_name: the last component when it is a normal one.
file_name(s) ==
    LET c == LastComponent(s)
    IN IF ~IsSome(c) THEN None
       ELSE IF Unwrap(c) \in {<<"/">>, <<".">>, <<".", ".">>} THEN None
       ELSE c

\* Path::parent: the path without its last component; None for the empty
\* path and for the root.
parent(s) ==
    LET t == SubSeq(s, 1, TrimmedLen(s))
        k == LastIndexOf(t, "/")
    IN IF t = <<>> \/ t = <<"/">> THEN None
       ELSE IF k = 0 THEN Some(<<>>)
       ELSE IF k = 1 THEN Some(<<"/">>)
       ELSE Some(SubSeq(t, 1, TrimmedLen(SubSeq(t, 1, k))))

\* Path::extension: the text after the last dot of the file name; None when
\* there is no file name, no dot, or the only dot starts the name.
extension(s) ==
    LET f == file_name(s)
    IN IF ~IsSome(f) THEN None
       ELSE LET n == Unwrap(f)
                d == LastIndexOf(n, ".")
            IN IF d <= 1 THEN None ELSE Some(SubSeq(n, d + 1, Len(n)))

\* Path::file_stem: the file name without its extension.
file_stem(s) ==
    LET f == file_name(s)
    IN IF ~IsSome(f) THEN None
       ELSE LET n == Unwrap(f)
                d == LastIndexOf(n, ".")
            IN IF d <= 1 THEN f ELSE Some(SubSeq(n, 1, d - 1))

\* The directory and every ancestor directory that create_dir_all makes.
RECURSIVE Ancestors(_)
Ancestors(d) ==
    IF d = <<>> \/ d = <<"/">> THEN {}
    ELSE {d} \cup (IF IsSome(parent(d)) THEN Ancestors(Unwrap(parent(d))) ELSE {})

\* ------------------------------------------------ placeholders (70 - 88)
PhExt == <<"{", "{", "e", "x", "t", "}", "}">>
PhName == <<"{", "{", "n", "a", "m", "e", "}", "}">>
PhDir == <<"{", "{", "d", "i", "r", "}", "}">>
PhParent == <<"{", "{", "p", "a", "r", "e", "n", "t", "}", "}">>

\* The job panics before the template is expanded when the path has no
\* extension (line 72) or no file stem (line 74).
ExpandPanics(path) == ~IsSome(extension(path)) \/ ~IsSome(file_stem(path))

\* A replace chain that puts the stem where the extension belongs and the
\* extension where the stem belongs.
final_file_name_swapped(output, path) ==
    LET e == Replace(output, PhExt, Unwrap(file_stem(path)))
        n == Replace(e, PhName, Unwrap(extension(path)))
        d == Replace(n, PhDir, UnwrapOr(parent(path), <<>>))
    IN Replace(d, PhParent,
               UnwrapOr(file_name(UnwrapOr(parent(path), <<>>)), <<>>))

\* final_file_name: the replace chain ext, name, dir, parent.
final_file_name(output, path) ==
    LET e == Replace(output, PhExt, Unwrap(extension(path)))
        n == Replace(e, PhName, Unwrap(file_stem(path)))
        d == Replace(n, PhDir, UnwrapOr(parent(path), <<>>))
    IN Replace(d, PhParent,
               UnwrapOr(file_name(UnwrapOr(parent(path), <<>>)), <<>>))

\* final_path_parent before its unwrap.
final_path_parent(name) == parent(name)


\* ------------------------------------------------------------ the inputs
\* Paths that a glob can return, in the alphabetical order glob yields them:
\* a/c.m (extension, parent directory a), b (no extension), c.m (no parent
\* directory), d.m.
PathUniverse ==
    << <<"a", "/", "c", ".", "m">>, <<"b">>, <<"c", ".", "m">>,
       <<"d", ".", "m">> >>

\* The list made of the universe's paths at the indexes in S, in order.
RECURSIVE ListOf(_, _)
ListOf(S, i) ==
    IF i > Len(PathUniverse) THEN <<>>
    ELSE (IF i \in S THEN <<PathUniverse[i]>> ELSE <<>>) \o ListOf(S, i + 1)

PathLists ==
    {ListOf(S, 1) : S \in {T \in SUBSET (1..Len(PathUniverse)) :
                              Cardinality(T) <= MaxPaths}}

\* glob(&cmd_args.input_directory): a pattern error, or the matched paths.
GlobResults ==
    {[ok |-> FALSE, paths |-> <<>>]} \cup {[ok |-> TRUE, paths |-> l] : l \in PathLists}

\* --output templates: o/p/{{name}}.{{ext}} (two directories to create) and
\* x (no placeholder, no directory).
Templates ==
    { <<"o", "/", "p", "/">> \o PhName \o <<".">> \o PhExt, <<"x">> }

\* --ffmpeg-options strings: "-y -n".
OptionStrings == { <<"-", "y", " ", "-", "n">> }

\* CmdArgs::parse(): thread_count is a u8; the model bounds it.
CmdArgsSet ==
    [thread_count : 0..MaxThreads, output : Templates, ffmpeg_options : OptionStrings]

\* -------------------------------------------------------------- the state
VARIABLES
    cmd_args,       \* the parsed CmdArgs (never changed)
    glob_result,    \* what glob() returns for input_directory (never changed)
    main_pc,        \* the main thread: glob, spawn, join, returned, exited, panicked
    joined,         \* number of handles the join loop has joined
    paths,          \* the Vec<PathBuf> inside the Mutex
    lock_holder,    \* the worker holding the MutexGuard, 0 when free
    poisoned,       \* the Mutex's poison flag
    workers,        \* thread_handles: one record per spawned thread
    dirs,           \* the directories that exist in the filesystem
    taken,          \* history: how many times element i of the Vec was popped
    outcome,        \* history: the outcome of the job of element i
    invoked,        \* history: Command::output() calls made for element i
    dir_err         \* history: create_dir_all failed for element i

vars ==
    << cmd_args, glob_result, main_pc, joined, paths, lock_holder, poisoned,
       workers, dirs, taken, outcome, invoked, dir_err >>

\* A freshly spawned thread, at the top of its loop.
NewWorker ==
    [pc |-> "lock", path_to_process |-> None, final_file_name |-> <<>>,
     argv |-> <<>>, job |-> 0]

Threads == 1..Len(workers)
Jobs == 1..Len(glob_result.paths)

\* The process ends when main returns, calls process::exit or panics; every
\* other thread ends with it.
Ended == main_pc \in {"returned", "exited", "panicked"}

\* The process exit status: 0 on return from main, 1 from process::exit(1),
\* 101 when the main thread panics; -1 while the process runs.
ExitStatus ==
    CASE main_pc = "returned" -> 0
      [] main_pc = "exited" -> 1
      [] main_pc = "panicked" -> 101
      [] OTHER -> -1

Init ==
    /\ cmd_args \in CmdArgsSet
    /\ glob_result \in GlobResults
    /\ main_pc = "glob"
    /\ joined = 0
    /\ paths = <<>>
    /\ lock_holder = 0
    /\ poisoned = FALSE
    /\ workers = <<>>
    /\ dirs = {<<"/">>}
    /\ taken = [i \in Jobs |-> 0]
    /\ outcome = [i \in Jobs |-> "none"]
    /\ invoked = [i \in Jobs |-> 0]
    /\ dir_err = [i \in Jobs |-> FALSE]

\* ------------------------------------------------------- the main thread
\* A spawn loop over the inclusive range 0..=thread_count.
SpawnRangeInclusive(thread_count) == thread_count + 1

\* The exclusive upper end of the spawn loop's range 0..thread_count.
SpawnRangeEnd(thread_count) == thread_count

\* A glob whose error branch prints the error and goes on with no paths.
GlobWithoutExit ==
    /\ main_pc = "glob"
    /\ paths' = glob_result.paths
    /\ main_pc' = IF 0 < SpawnRangeEnd(cmd_args.thread_count) THEN "spawn" ELSE "join"
    /\ UNCHANGED << cmd_args, glob_result, joined, lock_holder, poisoned, workers,
                    dirs, taken, outcome, invoked, dir_err >>

\* Lines 44 - 50: the glob; a pattern error prints it and exits with 1.
Glob ==
    /\ main_pc = "glob"
    /\ IF glob_result.ok
       THEN /\ paths' = glob_result.paths
            /\ main_pc' = IF 0 < SpawnRangeEnd(cmd_args.thread_count)
                          THEN "spawn" ELSE "join"
       ELSE /\ paths' = paths
            /\ main_pc' = "exited"
    /\ UNCHANGED << cmd_args, glob_result, joined, lock_holder, poisoned, workers,
                    dirs, taken, outcome, invoked, dir_err >>

\* Lines 54 - 133: one iteration of the spawn loop.
Spawn ==
    /\ main_pc = "spawn"
    /\ Len(workers) < SpawnRangeEnd(cmd_args.thread_count)
    /\ workers' = Append(workers, NewWorker)
    /\ main_pc' = IF Len(workers) + 1 < SpawnRangeEnd(cmd_args.thread_count)
                  THEN "spawn" ELSE "join"
    /\ UNCHANGED << cmd_args, glob_result, joined, paths, lock_holder, poisoned,
                    dirs, taken, outcome, invoked, dir_err >>

\* Lines 135 - 137: handle.join().unwrap() on the next handle; join blocks
\* until that thread has ended and unwrap panics when it ended by a panic.
Join ==
    /\ main_pc = "join"
    /\ joined < Len(workers)
    /\ workers[joined + 1].pc \in {"terminated", "panicked"}
    /\ IF workers[joined + 1].pc = "terminated"
       THEN joined' = joined + 1 /\ main_pc' = main_pc
       ELSE joined' = joined /\ main_pc' = "panicked"
    /\ UNCHANGED << cmd_args, glob_result, paths, lock_holder, poisoned, workers,
                    dirs, taken, outcome, invoked, dir_err >>

\* Line 138: main returns after the join loop.
Return ==
    /\ main_pc = "join"
    /\ joined = Len(workers)
    /\ main_pc' = "returned"
    /\ UNCHANGED << cmd_args, glob_result, joined, paths, lock_holder, poisoned,
                    workers, dirs, taken, outcome, invoked, dir_err >>


\* --------------------------------------------------------- a worker thread
\* A panic in thread w: the thread ends; a MutexGuard it holds is dropped
\* during unwinding, which poisons the Mutex.
Panic(w) ==
    /\ workers' = [workers EXCEPT ![w].pc = "panicked"]
    /\ poisoned' = (poisoned \/ lock_holder = w)
    /\ lock_holder' = IF lock_holder = w THEN 0 ELSE lock_holder

\* The next loop iteration: the locals of the last one are gone.
NextIteration(w) == [workers EXCEPT ![w] = NewWorker]

\* Line 60: paths.lock().unwrap(); blocks while another thread holds the
\* guard, panics when the Mutex is poisoned.
Lock(w) ==
    /\ ~Ended
    /\ workers[w].pc = "lock"
    /\ lock_holder = 0
    /\ IF poisoned
       THEN Panic(w)
       ELSE /\ lock_holder' = w
            /\ workers' = [workers EXCEPT ![w].pc = "pop"]
            /\ poisoned' = poisoned
    /\ UNCHANGED << cmd_args, glob_result, main_pc, joined, paths, dirs, taken,
                    outcome, invoked, dir_err >>

\* A pop that returns the last element and leaves it in the Vec.
pop_keeps_element(queue) ==
    IF queue = <<>>
    THEN [value |-> None, rest |-> queue]
    ELSE [value |-> Some(queue[Len(queue)]), rest |-> queue]

\* Vec::pop: the last element and the Vec without it, or None.
pop(queue) ==
    IF queue = <<>>
    THEN [value |-> None, rest |-> queue]
    ELSE [value |-> Some(queue[Len(queue)]), rest |-> SubSeq(queue, 1, Len(queue) - 1)]

\* Line 62: queue.pop() under the guard.
Pop(w) ==
    /\ ~Ended
    /\ workers[w].pc = "pop"
    /\ LET r == pop(paths)
           i == Len(paths)
       IN /\ paths' = r.rest
          /\ workers' = [workers EXCEPT ![w].pc = "unlock",
                                        ![w].path_to_process = r.value,
                                        ![w].job = IF IsSome(r.value) THEN i ELSE 0]
          /\ taken' = IF IsSome(r.value) THEN [taken EXCEPT ![i] = @ + 1] ELSE taken
    /\ UNCHANGED << cmd_args, glob_result, main_pc, joined, lock_holder, poisoned,
                    dirs, outcome, invoked, dir_err >>

\* A guard that lives on after the pop, through the job, because the lock
\* and the pop are not in a block of their own.
UnlockKeepsGuard(w) ==
    /\ ~Ended
    /\ workers[w].pc = "unlock"
    /\ workers' = [workers EXCEPT ![w].pc = "match"]
    /\ UNCHANGED << cmd_args, glob_result, main_pc, joined, paths, lock_holder,
                    poisoned, dirs, taken, outcome, invoked, dir_err >>

\* Line 63: the guard goes out of scope.
Unlock(w) ==
    /\ ~Ended
    /\ workers[w].pc = "unlock"
    /\ lock_holder' = IF lock_holder = w THEN 0 ELSE lock_holder
    /\ workers' = [workers EXCEPT ![w].pc = "match"]
    /\ UNCHANGED << cmd_args, glob_result, main_pc, joined, paths, poisoned, dirs,
                    taken, outcome, invoked, dir_err >>

\* Lines 126 - 128: None => break; the thread's closure returns.
Break(w) ==
    /\ ~Ended
    /\ workers[w].pc = "match"
    /\ ~IsSome(workers[w].path_to_process)
    /\ workers' = [workers EXCEPT ![w].pc = "terminated"]
    /\ UNCHANGED << cmd_args, glob_result, main_pc, joined, paths, lock_holder,
                    poisoned, dirs, taken, outcome, invoked, dir_err >>

\* Lines 66 - 89: Some(path): the output name is computed; the unwraps of
\* extension(), file_stem() and of the output name's parent() panic on None.
Expand(w) ==
    /\ ~Ended
    /\ workers[w].pc = "match"
    /\ IsSome(workers[w].path_to_process)
    /\ LET path == Unwrap(workers[w].path_to_process)
           name == final_file_name(cmd_args.output, path)
       IN IF ExpandPanics(path) \/ ~IsSome(final_path_parent(name))
          THEN /\ Panic(w)
               /\ outcome' = [outcome EXCEPT ![workers[w].job] = "Panicked"]
          ELSE /\ workers' = [workers EXCEPT ![w].pc = "exists",
                                             ![w].final_file_name = name]
               /\ UNCHANGED << lock_holder, poisoned, outcome >>
    /\ UNCHANGED << cmd_args, glob_result, main_pc, joined, paths, dirs, taken,
                    invoked, dir_err >>

\* Line 91: final_path_parent.exists().
Exists(w) ==
    /\ ~Ended
    /\ workers[w].pc = "exists"
    /\ workers' = [workers EXCEPT ![w].pc =
           IF Unwrap(final_path_parent(workers[w].final_file_name)) \in dirs
           THEN "ffmpeg" ELSE "create_dir"]
    /\ UNCHANGED << cmd_args, glob_result, main_pc, joined, paths, lock_holder,
                    poisoned, dirs, taken, outcome, invoked, dir_err >>

\* What a failing create_dir_all(d) may have created: ancestors of d, each
\* with its own ancestors, but not d.
PartialCreations(d) ==
    {A \in SUBSET (Ancestors(d) \ {d}) : \A x \in A : Ancestors(x) \subseteq A}

\* A creation that fails on a directory that exists, as create_dir does.
CreateDirFailsOnExisting(w) ==
    /\ ~Ended
    /\ workers[w].pc = "create_dir"
    /\ LET d == Unwrap(final_path_parent(workers[w].final_file_name))
       IN \E ok \in BOOLEAN :
            IF (ok \/ d = <<>>) /\ d \notin dirs
            THEN /\ dirs' = dirs \cup Ancestors(d)
                 /\ dir_err' = dir_err
            ELSE /\ dirs' = dirs
                 /\ dir_err' = [dir_err EXCEPT ![workers[w].job] = TRUE]
    /\ workers' = [workers EXCEPT ![w].pc = "ffmpeg"]
    /\ UNCHANGED << cmd_args, glob_result, main_pc, joined, paths, lock_holder,
                    poisoned, taken, outcome, invoked >>

\* Lines 92 - 101: create_dir_all; an error is printed and the job goes on.
\* create_dir_all succeeds at once on the empty path and on an existing
\* directory; otherwise the filesystem decides.
CreateDirAll(w) ==
    /\ ~Ended
    /\ workers[w].pc = "create_dir"
    /\ LET d == Unwrap(final_path_parent(workers[w].final_file_name))
       IN \E ok \in BOOLEAN :
            IF ok \/ d = <<>> \/ d \in dirs
            THEN /\ dirs' = dirs \cup Ancestors(d)
                 /\ dir_err' = dir_err
            ELSE /\ \E A \in PartialCreations(d) : dirs' = dirs \cup A
                 /\ dir_err' = [dir_err EXCEPT ![workers[w].job] = TRUE]
    /\ workers' = [workers EXCEPT ![w].pc = "ffmpeg"]
    /\ UNCHANGED << cmd_args, glob_result, main_pc, joined, paths, lock_holder,
                    poisoned, taken, outcome, invoked >>


\* Command arguments that leave out the empty tokens of the option string,
\* as split_whitespace would.
CommandArgsNoEmptyTokens(path, options, name) ==
    LET tokens == Split(options, " ")
        kept == SelectSeq(tokens, LAMBDA t : t # <<>>)
    IN << <<"-", "i">>, path >> \o kept \o <<name>>

\* Lines 68, 105 - 107: .args(["-i", path]).args(split_options).arg(name).
CommandArgs(path, options, name) ==
    << <<"-", "i">>, path >> \o Split(options, " ") \o <<name>>

\* Lines 104 - 110, 122 - 124: Command::new("ffmpeg") ... .output() starts
\* the tool; when it cannot be started the error is printed and the loop
\* goes on.
Launch(w) ==
    /\ ~Ended
    /\ workers[w].pc = "ffmpeg"
    /\ invoked' = [invoked EXCEPT ![workers[w].job] = @ + 1]
    /\ \E started \in BOOLEAN :
         IF started
         THEN /\ workers' = [workers EXCEPT
                      ![w].pc = "wait",
                      ![w].argv = CommandArgs(Unwrap(workers[w].path_to_process),
                                              cmd_args.ffmpeg_options,
                                              workers[w].final_file_name)]
              /\ outcome' = outcome
         ELSE /\ workers' = NextIteration(w)
              /\ outcome' = [outcome EXCEPT ![workers[w].job] = "ToolUnavailable"]
    /\ UNCHANGED << cmd_args, glob_result, main_pc, joined, paths, lock_holder,
                    poisoned, dirs, taken, dir_err >>

\* A tool exit that puts the path of a failed job back into the Vec.
ToolExitRequeues(w) ==
    /\ ~Ended
    /\ workers[w].pc = "wait"
    /\ \E success \in BOOLEAN :
         /\ outcome' = [outcome EXCEPT ![workers[w].job] =
                           IF success THEN "Success" ELSE "ToolFailure"]
         /\ paths' = IF success THEN paths
                     ELSE Append(paths, Unwrap(workers[w].path_to_process))
    /\ workers' = NextIteration(w)
    /\ UNCHANGED << cmd_args, glob_result, main_pc, joined, lock_holder,
                    poisoned, dirs, taken, invoked, dir_err >>

\* Lines 110 - 121: output() returns when the tool has exited; success or
\* the error is printed and the loop goes on.
ToolExit(w) ==
    /\ ~Ended
    /\ workers[w].pc = "wait"
    /\ \E success \in BOOLEAN :
         outcome' = [outcome EXCEPT ![workers[w].job] =
                        IF success THEN "Success" ELSE "ToolFailure"]
    /\ workers' = NextIteration(w)
    /\ UNCHANGED << cmd_args, glob_result, main_pc, joined, paths, lock_holder,
                    poisoned, dirs, taken, invoked, dir_err >>

\* ------------------------------------------------------ the specification
Next ==
    \/ Glob
    \/ Spawn
    \/ Join
    \/ Return
    \/ \E w \in Threads : Lock(w)
    \/ \E w \in Threads : Pop(w)
    \/ \E w \in Threads : Unlock(w)
    \/ \E w \in Threads : Break(w)
    \/ \E w \in Threads : Expand(w)
    \/ \E w \in Threads : Exists(w)
    \/ \E w \in Threads : CreateDirAll(w)
    \/ \E w \in Threads : Launch(w)
    \/ \E w \in Threads : ToolExit(w)

Spec == Init /\ [][Next]_vars

\* ------------------------------------- one job, many templates and options
\* Input paths: a/b/c.mp4, c.m (no parent directory) and a.{{name}} (the
\* extension spells a placeholder).
PathABC == <<"a", "/", "b", "/", "c", ".", "m", "p", "4">>
PathCM == <<"c", ".", "m">>
PathBraces == <<"a", ".">> \o PhName
JobPaths == {PathABC, PathCM, PathBraces}

\* --output templates: {{dir}}/{{name}}_out.{{ext}}, {{parent}}/{{name}}.{{ext}},
\* {dir}/{name}_out.{ext}, {{ext}}, {{dir}}.
TemplateDirNameExt == PhDir \o <<"/">> \o PhName \o <<"_", "o", "u", "t", ".">> \o PhExt
TemplateParentNameExt == PhParent \o <<"/">> \o PhName \o <<".">> \o PhExt
TemplateSingleBraces ==
    <<"{", "d", "i", "r", "}", "/", "{", "n", "a", "m", "e", "}",
      "_", "o", "u", "t", ".", "{", "e", "x", "t", "}">>
TemplateSingleParent ==
    <<"{", "p", "a", "r", "e", "n", "t", "}", "/", "{", "n", "a", "m", "e", "}",
      ".", "{", "e", "x", "t", "}">>
JobTemplates ==
    {TemplateDirNameExt, TemplateParentNameExt, TemplateSingleBraces,
     TemplateSingleParent, PhExt, PhDir}

\* --ffmpeg-options strings: "-y -n", "-y  -n" (two spaces), " -y" and "".
JobOptionStrings ==
    { <<"-", "y", " ", "-", "n">>, <<"-", "y", " ", " ", "-", "n">>,
      <<" ", "-", "y">>, <<>> }

\* One worker, one matched path.
InitJob ==
    /\ cmd_args \in [thread_count : {1}, output : JobTemplates,
                     ffmpeg_options : JobOptionStrings]
    /\ glob_result \in {[ok |-> TRUE, paths |-> <<p>>] : p \in JobPaths}
    /\ main_pc = "glob"
    /\ joined = 0
    /\ paths = <<>>
    /\ lock_holder = 0
    /\ poisoned = FALSE
    /\ workers = <<>>
    /\ dirs = {<<"/">>}
    /\ taken = [i \in Jobs |-> 0]
    /\ outcome = [i \in Jobs |-> "none"]
    /\ invoked = [i \in Jobs |-> 0]
    /\ dir_err = [i \in Jobs |-> FALSE]

JobSpec == InitJob /\ [][Next]_vars

\* ------------------------------------------------------------- the claims
\* Workers whose tool invocation has started and has not exited.
InFlight == {w \in Threads : workers[w].pc = "wait"}

\* Workers that hold a path taken from the queue.
Holding == {w \in Threads : workers[w].job # 0}

\* Dispatch has begun: the glob succeeded.
Dispatched == glob_result.ok /\ main_pc # "glob"

\* C1: no element of the queue is ever returned by two takes, whether by
\* two workers or twice by one worker, and two workers never hold the same
\* element at the same time.
C1_NoDoubleTake ==
    /\ \A i \in Jobs : taken[i] <= 1
    /\ \A v, w \in Holding : v # w => workers[v].job # workers[w].job

\* Two workers hold a path each, both taken from the same queue.
C1_Witness ==
    \E v, w \in Holding : v # w /\ taken[workers[v].job] = 1 /\ taken[workers[w].job] = 1

\* C2: once the process has ended after a successful glob with
\* thread_count >= 1, every discovered path was taken exactly once and its
\* job reached an outcome.
C2_AllProcessedOnce ==
    (Ended /\ Dispatched /\ cmd_args.thread_count >= 1)
        => \A i \in Jobs : taken[i] = 1 /\ outcome[i] # "none"

\* C3: join barrier: the process has not ended while a spawned worker is
\* still running.
C3_JoinBarrier ==
    Ended => \A w \in Threads : workers[w].pc \in {"terminated", "panicked"}

\* C4: a job whose tool exits nonzero or cannot be started does not stop the
\* batch: when the process ends after such a job, every path of the batch
\* has been taken and has reached an end of its own.
C4_ToolFailureIsolated ==
    (Ended /\ \E i \in Jobs : outcome[i] \in {"ToolFailure", "ToolUnavailable"})
        => \A j \in Jobs : taken[j] = 1 /\ outcome[j] # "none"

\* C5: a path with no extension is a reported failure of its job and never
\* ends the worker that took it.
C5_NoExtensionNoCrash ==
    \A w \in Threads :
        (/\ IsSome(workers[w].path_to_process)
         /\ ~IsSome(extension(Unwrap(workers[w].path_to_process))))
            => workers[w].pc # "panicked"

\* C6: the tool is never invoked for a path whose output directory could not
\* be created.
C6_DirErrorAbortsJob ==
    \A i \in Jobs : dir_err[i] => invoked[i] = 0

\* C7: once dispatch has begun the process never ends with a nonzero status.
C7_ExitZeroAfterDispatch ==
    (Dispatched /\ Ended) => ExitStatus = 0

\* C8: the run completes: a dispatched run with thread_count >= 1 ends only
\* by passing the join barrier, with every worker terminated through the
\* empty queue; it never ends in any other way.
C8_RunCompletes ==
    (Ended /\ Dispatched /\ cmd_args.thread_count >= 1)
        => /\ main_pc = "returned"
           /\ paths = <<>>
           /\ \A w \in Threads : workers[w].pc = "terminated"

\* C9: when the glob pattern is invalid the process exits with status 1
\* from the glob step: no worker exists, nothing is in the queue, nothing
\* is taken and no tool is invoked.
C9_GlobErrorExitsFirst ==
    ~glob_result.ok
        => /\ main_pc \in {"glob", "exited"}
           /\ ExitStatus \in {-1, 1}
           /\ workers = <<>>
           /\ paths = <<>>
           /\ lock_holder = 0
           /\ \A i \in Jobs : taken[i] = 0 /\ invoked[i] = 0

\* The process has exited on the glob error.
C9_Witness == ~glob_result.ok /\ main_pc = "exited" /\ ExitStatus = 1

\* C10: never more than thread_count workers, exactly thread_count once the
\* spawn loop is over; the tool invocations in flight belong to distinct
\* jobs, so there are at most thread_count and at most as many as paths.
C10_BoundedParallelism ==
    /\ Len(workers) <= cmd_args.thread_count
    /\ main_pc \in {"join", "returned", "panicked"}
           => Len(workers) = cmd_args.thread_count
    /\ Cardinality(InFlight) <= cmd_args.thread_count
    /\ Cardinality(InFlight) <= Len(glob_result.paths)
    /\ \A v, w \in InFlight : v # w => workers[v].job # workers[w].job

\* thread_count tool invocations are in flight at once, thread_count >= 2.
C10_Witness ==
    /\ cmd_args.thread_count >= 2
    /\ Cardinality(InFlight) = cmd_args.thread_count


\* Workers whose job has computed its output name.
Expanded == {w \in Threads : workers[w].pc \in {"exists", "create_dir", "ffmpeg", "wait"}}

\* The template read once from left to right, each placeholder found
\* replaced by its value and the inserted text not read again.
RECURSIVE SinglePass(_, _)
SinglePass(t, subst) ==
    IF t = <<>> THEN <<>>
    ELSE LET M == {k \in 1..Len(subst) :
                      /\ Len(subst[k][1]) <= Len(t)
                      /\ SubSeq(t, 1, Len(subst[k][1])) = subst[k][1]}
         IN IF M = {} THEN <<Head(t)>> \o SinglePass(Tail(t), subst)
            ELSE LET k == CHOOSE j \in M : TRUE
                 IN subst[k][2]
                        \o SinglePass(SubSeq(t, Len(subst[k][1]) + 1, Len(t)), subst)

\* The four values of a path: extension, stem, parent directory and the
\* parent directory's last component.
PartsOf(path) ==
    [ext |-> Unwrap(extension(path)),
     name |-> Unwrap(file_stem(path)),
     dir |-> UnwrapOr(parent(path), <<>>),
     parent |-> UnwrapOr(file_name(UnwrapOr(parent(path), <<>>)), <<>>)]

\* The double-brace placeholders with the values of the path.
DoubleBraceSubst(path) ==
    << <<PhExt, PartsOf(path).ext>>, <<PhName, PartsOf(path).name>>,
       <<PhDir, PartsOf(path).dir>>, <<PhParent, PartsOf(path).parent>> >>

NoBraces(path) == \A i \in 1..Len(path) : path[i] \notin {"{", "}"}

ABCOut == <<"a", "/", "b", "/", "c", "_", "o", "u", "t", ".", "m", "p", "4">>
BC == <<"b", "/", "c", ".", "m", "p", "4">>

RECURSIVE JoinWithSpaces(_)
JoinWithSpaces(tokens) ==
    IF Len(tokens) = 0 THEN <<>>
    ELSE IF Len(tokens) = 1 THEN tokens[1]
    ELSE tokens[1] \o <<" ">> \o JoinWithSpaces(Tail(tokens))

\* Number of space characters in the string.
SpacesIn(str) == Cardinality({i \in 1..Len(str) : str[i] = " "})

\* C12: the arguments of every tool invocation are -i, the input path, the
\* tokens of the option string and the output name as the last one; the
\* tokens are one more than the spaces of the option string, hold no space,
\* and joined by single spaces give the option string back (so empty
\* tokens are kept and nothing is unquoted).
C12_ArgumentVector ==
    \A w \in Threads :
        workers[w].pc = "wait" =>
            LET argv == workers[w].argv
                tokens == SubSeq(argv, 3, Len(argv) - 1)
            IN /\ Len(argv) >= 4
               /\ argv[1] = <<"-", "i">>
               /\ argv[2] = Unwrap(workers[w].path_to_process)
               /\ argv[Len(argv)] = workers[w].final_file_name
               /\ Len(tokens) = SpacesIn(cmd_args.ffmpeg_options) + 1
               /\ \A k \in 1..Len(tokens) : SpacesIn(tokens[k]) = 0
               /\ JoinWithSpaces(tokens) = cmd_args.ffmpeg_options

\* A tool invocation in flight whose arguments hold an empty token, from an
\* option string with two spaces in a row.
C12_Witness ==
    \E w \in Threads :
        /\ workers[w].pc = "wait"
        /\ SpacesIn(cmd_args.ffmpeg_options) = 2
        /\ \E k \in 3..(Len(workers[w].argv) - 1) : workers[w].argv[k] = <<>>


\* The steps of a job, after the block that locks and pops.
JobSteps == {"match", "exists", "create_dir", "ffmpeg", "wait"}

\* C13: the lock is held only for the pop: its holder is at the pop or at
\* the end of the block that holds the guard, and no worker that is at a
\* step of a job, or has ended, holds it.
C13_LockOnlyForPop ==
    /\ lock_holder # 0
           => lock_holder \in Threads /\ workers[lock_holder].pc \in {"pop", "unlock"}
    /\ \A w \in Threads :
           workers[w].pc \in JobSteps \cup {"terminated", "panicked"} => lock_holder # w

\* One worker waits for its tool while another worker holds the lock and
\* has taken a path.
C13_Witness ==
    \E v, w \in Threads :
        /\ workers[v].pc = "wait"
        /\ lock_holder = w
        /\ workers[w].pc = "unlock"
        /\ IsSome(workers[w].path_to_process)

\* The queue is the first Len(paths) elements of the discovered list and
\* each element was taken once if it is no longer in it, never otherwise.
QueueConserved ==
    /\ Len(paths) <= Len(glob_result.paths)
    /\ paths = SubSeq(glob_result.paths, 1, Len(paths))
    /\ \A i \in Jobs : taken[i] = IF i > Len(paths) THEN 1 ELSE 0

\* A step leaves the queue as it is or removes its last element.
QueueShrinksByOne ==
    \/ paths' = paths
    \/ paths # <<>> /\ paths' = SubSeq(paths, 1, Len(paths) - 1)

\* C14: once the queue is built, the queued paths and the taken paths are
\* disjoint and together are the discovered list; every step leaves the queue
\* unchanged or removes one element; an empty queue stays empty.
C14_QueueConservation ==
    /\ [](Dispatched => QueueConserved)
    /\ [][Dispatched => QueueShrinksByOne]_vars
    /\ [][(Dispatched /\ paths = <<>>) => paths' = <<>>]_vars

\* The whole list of three paths has been taken and the queue is empty,
\* one of the jobs having failed.
C14_Witness ==
    /\ Dispatched
    /\ Len(glob_result.paths) = 3
    /\ paths = <<>>
    /\ \A i \in Jobs : taken[i] = 1
    /\ \E i \in Jobs : outcome[i] = "ToolFailure"


\* C15: a worker leaves its loop only by a take that finds the queue empty:
\* whenever some worker has ended, the queue is empty and that worker's
\* last take returned nothing.
C15_EndsOnlyOnEmptyQueue ==
    \A w \in Threads :
        workers[w].pc \in {"terminated", "panicked"}
            => paths = <<>> /\ ~IsSome(workers[w].path_to_process)

\* The substitutions applied one after the other, each over the whole text,
\* in the given order.
RECURSIVE ChainInOrder(_, _, _, _)
ChainInOrder(t, subst, order, k) ==
    IF k > Len(subst) THEN t
    ELSE ChainInOrder(Replace(t, subst[order[k]][1], subst[order[k]][2]),
                      subst, order, k + 1)

\* C16: the output name does not depend on the order of the four
\* substitutions: every order of ext, name, dir, parent gives the name the
\* job computed.
C16_OrderIndependent ==
    \A w \in Expanded :
        \A order \in Permutations(1..4) :
            ChainInOrder(cmd_args.output,
                         DoubleBraceSubst(Unwrap(workers[w].path_to_process)),
                         order, 1)
                = workers[w].final_file_name

\* The template holds none of the four placeholders.
PlaceholderFree(t) ==
    \A ph \in {PhExt, PhName, PhDir, PhParent} : Replace(t, ph, <<>>) = t

\* C17: with a template that holds no placeholder, no job fails in the
\* expansion, whatever the input path: the worker that took a path has not
\* panicked, and once the name is computed it is the template itself.
C17_PlaceholderFreeNeverFails ==
    PlaceholderFree(cmd_args.output)
        => \A w \in Threads :
              /\ IsSome(workers[w].path_to_process) => workers[w].pc # "panicked"
              /\ w \in Expanded => workers[w].final_file_name = cmd_args.output


\* The directory the job of worker w needs for its output file.
OutputDir(w) == Unwrap(final_path_parent(workers[w].final_file_name))

\* C18: a job never reports a directory-creation error for a directory that
\* exists: a worker that found the directory missing and creates it after
\* another worker has made it gets no error and goes on to the tool, and a
\* worker that finds the directory goes on to the tool at once.
C18_DirectoryRaceBenign ==
    [][\A w \in Threads :
          /\ (/\ workers[w].pc = "create_dir"
              /\ workers'[w].pc # "create_dir"
              /\ OutputDir(w) \in dirs)
                 => dir_err' = dir_err /\ workers'[w].pc = "ffmpeg"
          /\ (/\ workers[w].pc = "exists"
              /\ workers'[w].pc # "exists"
              /\ OutputDir(w) \in dirs)
                 => dir_err' = dir_err /\ workers'[w].pc = "ffmpeg"]_vars

\* Two workers found the same directory missing; one has created it and is
\* at the tool without an error, the other is about to create it.
C18_Witness ==
    \E v, w \in Threads :
        /\ v # w
        /\ workers[w].pc = "create_dir"
        /\ workers[v].pc \in {"ffmpeg", "wait"}
        /\ OutputDir(v) = OutputDir(w)
        /\ OutputDir(w) # <<>>
        /\ OutputDir(w) \in dirs
        /\ ~dir_err[workers[v].job]


\* C19: with thread_count = 0 nothing runs: there is no worker, the queue
\* stays the discovered list, nothing is taken or invoked, the join loop
\* has no handle to wait for and main returns with status 0.
C19_ZeroThreadsDoNothing ==
    cmd_args.thread_count = 0
        => /\ workers = <<>>
           /\ Dispatched => paths = glob_result.paths
           /\ \A i \in Jobs : taken[i] = 0 /\ invoked[i] = 0 /\ outcome[i] = "none"
           /\ main_pc \in {"glob", "join", "returned", "exited"}
           /\ main_pc = "join" => joined = Len(workers)
           /\ (Dispatched /\ Ended) => main_pc = "returned" /\ ExitStatus = 0

\* main has returned with thread_count = 0 and three paths still queued.
C19_Witness ==
    /\ cmd_args.thread_count = 0
    /\ main_pc = "returned"
    /\ Len(paths) = 3
    /\ paths = glob_result.paths

\* C20: the Mutex is never poisoned, so lock().unwrap() never panics: every
\* worker that has panicked did so inside a job, holding a taken path and
\* not the lock, and a worker ends by the empty take or by such a panic only.
C20_NeverPoisoned ==
    /\ ~poisoned
    /\ \A w \in Threads :
           workers[w].pc = "panicked"
               => /\ IsSome(workers[w].path_to_process)
                  /\ outcome[workers[w].job] = "Panicked"
                  /\ lock_holder # w

\* One worker has panicked inside its job and another worker holds the
\* lock and has popped the next path.
C20_Witness ==
    \E v, w \in Threads :
        /\ workers[v].pc = "panicked"
        /\ lock_holder = w
        /\ workers[w].pc = "unlock"
        /\ IsSome(workers[w].path_to_process)
        /\ workers[w].job < workers[v].job

====
